---- MODULE Spec2Model ----
(***************************************************************************)
(* The hybrid Cover Agent MCP server (cover_agent/cc_mcp/hybrid_server.py) *)
(* as a state machine: the instance fields of HybridCoverAgentMCPServer,   *)
(* the six tool handlers, the text heuristics they apply to file contents, *)
(* and the lines the process writes to its standard output.                *)
(*                                                                         *)
(* Text is modelled at the character level: a Python str is a sequence of  *)
(* one-character strings, so that split, strip, startswith, Path.suffix    *)
(* and re.search are computed the way the code computes them.              *)
(***************************************************************************)
EXTENDS Integers, Sequences, FiniteSets, TLC

(***************************************************************************)
(* Bounds of the model.                                                    *)
(***************************************************************************)
\* How many lines of the process's standard output the model records.
MaxStdout == 4

(***************************************************************************)
(* Python values.                                                          *)
(***************************************************************************)
\* None, where the other values are strings.
None == "None"

\* Optional[T] where T is not a string: the empty tuple for None, <<v>> for v.
Nothing == <<>>
Some(v) == <<v>>

\* The outcome of an expression that may raise: a value or an exception
\* carrying str(e).
Ok(v) == [ok |-> TRUE, val |-> v]
Raise(msg) == [ok |-> FALSE, exc |-> msg]

(***************************************************************************)
(* str operations on character sequences.                                  *)
(***************************************************************************)
Whitespace == {" ", "\t", "\n", "\r"}

Lower == {"a", "b", "c", "d", "e", "f", "g", "h", "i", "j", "k", "l", "m",
          "n", "o", "p", "q", "r", "s", "t", "u", "v", "w", "x", "y", "z"}

Upper == {"A", "B", "C", "D", "E", "F", "G", "H", "I", "J", "K", "L", "M",
          "N", "O", "P", "Q", "R", "S", "T", "U", "V", "W", "X", "Y", "Z"}

Digits == {"0", "1", "2", "3", "4", "5", "6", "7", "8", "9"}

\* The characters \w matches.
WordChars == Lower \cup Upper \cup Digits \cup {"_"}

\* A str as the sequence of its characters.
Chars(str) == [i \in 1..Len(str) |-> SubSeq(str, i, i)]

\* str.lower() of one character.
LowerChar(c) ==
    CASE c = "A" -> "a" [] c = "B" -> "b" [] c = "C" -> "c" [] c = "D" -> "d"
      [] c = "E" -> "e" [] c = "F" -> "f" [] c = "G" -> "g" [] c = "H" -> "h"
      [] c = "I" -> "i" [] c = "J" -> "j" [] c = "K" -> "k" [] c = "L" -> "l"
      [] c = "M" -> "m" [] c = "N" -> "n" [] c = "O" -> "o" [] c = "P" -> "p"
      [] c = "Q" -> "q" [] c = "R" -> "r" [] c = "S" -> "s" [] c = "T" -> "t"
      [] c = "U" -> "u" [] c = "V" -> "v" [] c = "W" -> "w" [] c = "X" -> "x"
      [] c = "Y" -> "y" [] c = "Z" -> "z" [] OTHER -> c

\* str.lower().
ToLower(s) == [i \in 1..Len(s) |-> LowerChar(s[i])]

\* The Python str a character sequence stands for.
RECURSIVE Join(_)
Join(s) == IF s = <<>> THEN "" ELSE Head(s) \o Join(Tail(s))

\* s[i:] and s[:i] with 1-based i.
From(s, i) == SubSeq(s, i, Len(s))
Upto(s, i) == SubSeq(s, 1, i)

\* Whether sub occurs in s at position i.
OccursAt(s, sub, i) ==
    /\ i >= 1
    /\ i + Len(sub) - 1 <= Len(s)
    /\ SubSeq(s, i, i + Len(sub) - 1) = sub

\* s.startswith(p)
StartsWith(s, p) == OccursAt(s, p, 1)

\* sub in s
Contains(s, sub) == \E i \in 1..(Len(s) + 1) : OccursAt(s, sub, i)

\* s.find(sub) from position i on, 1-based; 0 when absent.
RECURSIVE FindFrom(_, _, _)
FindFrom(s, sub, i) ==
    IF i + Len(sub) - 1 > Len(s) THEN 0
    ELSE IF OccursAt(s, sub, i) THEN i
    ELSE FindFrom(s, sub, i + 1)

\* s.rfind(c) for one character, 1-based; 0 when absent.
RECURSIVE RFindChar(_, _, _)
RFindChar(s, c, i) ==
    IF i < 1 THEN 0 ELSE IF s[i] = c THEN i ELSE RFindChar(s, c, i - 1)

\* s.split(sep) for a non-empty separator: always at least one piece.
RECURSIVE Split(_, _)
Split(s, sep) ==
    LET i == FindFrom(s, sep, 1)
    IN  IF i = 0 THEN <<s>>
        ELSE <<Upto(s, i - 1)>> \o Split(From(s, i + Len(sep)), sep)

\* s.replace(old, new)
RECURSIVE Replace(_, _, _)
Replace(s, old, new) ==
    LET i == FindFrom(s, old, 1)
    IN  IF i = 0 THEN s
        ELSE Upto(s, i - 1) \o new \o Replace(From(s, i + Len(old)), old, new)

\* s.lstrip(), s.rstrip(), s.strip()
RECURSIVE LStrip(_)
LStrip(s) ==
    IF s # <<>> /\ Head(s) \in Whitespace THEN LStrip(Tail(s)) ELSE s

RECURSIVE RStrip(_)
RStrip(s) ==
    IF s # <<>> /\ s[Len(s)] \in Whitespace
    THEN RStrip(Upto(s, Len(s) - 1)) ELSE s

Strip(s) == RStrip(LStrip(s))

\* f.readlines(): the lines with their line endings; no empty last line.
RECURSIVE ReadLines(_)
ReadLines(s) ==
    LET i == FindFrom(s, <<"\n">>, 1)
    IN  IF s = <<>> THEN <<>>
        ELSE IF i = 0 THEN <<s>>
        ELSE <<Upto(s, i)>> \o ReadLines(From(s, i + 1))

(***************************************************************************)
(* pathlib.Path on POSIX paths.                                            *)
(***************************************************************************)
\* Path(p).name: the last component.
PathName(p) ==
    LET i == RFindChar(p, "/", Len(p)) IN From(p, i + 1)

\* Path(p).parent, as a string.
PathParent(p) ==
    LET i == RFindChar(p, "/", Len(p))
    IN  IF i = 0 THEN <<".">> ELSE IF i = 1 THEN <<"/">> ELSE Upto(p, i - 1)

\* Path(p).suffix: from the last dot of the name, unless the name starts or
\* ends with it.
PathSuffix(p) ==
    LET name == PathName(p)
        i == RFindChar(name, ".", Len(name))
    IN  IF 1 < i /\ i < Len(name) THEN From(name, i) ELSE <<>>

\* Path(p).stem
PathStem(p) ==
    LET name == PathName(p)
        i == RFindChar(name, ".", Len(name))
    IN  IF 1 < i /\ i < Len(name) THEN Upto(name, i - 1) ELSE name

\* parent / name
PathJoin(parent, name) ==
    IF parent = <<"/">> THEN parent \o name ELSE parent \o <<"/">> \o name

\* os.path.join(root, rel) for a relative rel
OsPathJoin(root, rel) ==
    IF root = <<>> THEN rel
    ELSE IF root[Len(root)] = "/" THEN root \o rel
    ELSE root \o <<"/">> \o rel

(***************************************************************************)
(* The re module: regular expressions as syntax trees, matched by          *)
(* backtracking in Python's order of preference (greedy repetition, the    *)
(* alternatives left to right), with the capture groups re.Match records.  *)
(***************************************************************************)
Lit(s) == [t |-> "lit", s |-> s]
Cls(S) == [t |-> "cls", neg |-> FALSE, set |-> S]
NotCls(S) == [t |-> "cls", neg |-> TRUE, set |-> S]
Cat(rs) == [t |-> "cat", rs |-> rs]
Alt(rs) == [t |-> "alt", rs |-> rs]
Star(r) == [t |-> "star", r |-> r]
Plus(r) == Cat(<<r, Star(r)>>)
Opt(r) == Alt(<<r, Lit(<<>>)>>)
Grp(k, r) == [t |-> "grp", k |-> k, r |-> r]

\* \s, \w, . and the + and * forms the patterns use
ReSpace == Cls(Whitespace)
ReWord == Cls(WordChars)
ReAny == NotCls({"\n"})
Spaces1 == Plus(ReSpace)
Spaces0 == Star(ReSpace)
Word1 == Plus(ReWord)

\* The number of capture groups of a pattern (re.Pattern.groups).
RECURSIVE NGroups(_), NGroupsSeq(_, _)
NGroups(re) ==
    CASE re.t = "grp" -> 1 + NGroups(re.r)
      [] re.t = "star" -> NGroups(re.r)
      [] re.t \in {"cat", "alt"} -> NGroupsSeq(re.rs, 1)
      [] OTHER -> 0
NGroupsSeq(rs, k) ==
    IF k > Len(rs) THEN 0 ELSE NGroups(rs[k]) + NGroupsSeq(rs, k + 1)

\* A group that did not take part in the match.
Unset == <<0, 0>>

\* M(re, s, st): the ways re matches s from matcher state st = [pos, caps],
\* as the states after the match, most preferred first.
RECURSIVE M(_, _, _), MEach(_, _, _, _), MCat(_, _, _, _), MAlt(_, _, _, _)
RECURSIVE MStar(_, _, _), MStarEach(_, _, _, _)
M(re, s, st) ==
    CASE re.t = "lit" ->
            IF OccursAt(s, re.s, st.pos)
            THEN <<[st EXCEPT !.pos = st.pos + Len(re.s)]>> ELSE <<>>
      [] re.t = "cls" ->
            IF st.pos <= Len(s) /\ ((s[st.pos] \in re.set) # re.neg)
            THEN <<[st EXCEPT !.pos = st.pos + 1]>> ELSE <<>>
      [] re.t = "cat" -> MCat(re.rs, 1, s, <<st>>)
      [] re.t = "alt" -> MAlt(re.rs, 1, s, st)
      [] re.t = "star" -> MStar(re.r, s, st)
      [] re.t = "grp" ->
            LET inner == M(re.r, s, st)
            IN  [i \in 1..Len(inner) |->
                    [inner[i] EXCEPT !.caps[re.k] = <<st.pos, inner[i].pos>>]]
MEach(re, s, sts, i) ==
    IF i > Len(sts) THEN <<>>
    ELSE M(re, s, sts[i]) \o MEach(re, s, sts, i + 1)
MCat(rs, k, s, sts) ==
    IF k > Len(rs) THEN sts
    ELSE MCat(rs, k + 1, s, MEach(rs[k], s, sts, 1))
MAlt(rs, k, s, st) ==
    IF k > Len(rs) THEN <<>>
    ELSE M(rs[k], s, st) \o MAlt(rs, k + 1, s, st)
MStar(r, s, st) ==
    LET once == SelectSeq(M(r, s, st), LAMBDA x : x.pos > st.pos)
    IN  MStarEach(r, s, once, 1) \o <<st>>
MStarEach(r, s, sts, i) ==
    IF i > Len(sts) THEN <<>>
    ELSE MStar(r, s, sts[i]) \o MStarEach(r, s, sts, i + 1)

\* re.search(pattern, s): the match at the leftmost position that has one,
\* or None.
RECURSIVE SearchFrom(_, _, _)
SearchFrom(re, s, i) ==
    IF i > Len(s) + 1 THEN Nothing
    ELSE LET n == NGroups(re)
             ms == M(re, s, [pos |-> i, caps |-> [k \in 1..n |-> Unset]])
         IN  IF ms # <<>>
             THEN Some([start |-> i, end |-> ms[1].pos, caps |-> ms[1].caps,
                        ngroups |-> n])
             ELSE SearchFrom(re, s, i + 1)

ReSearch(re, s) == SearchFrom(re, s, 1)

\* Match.groups(): one entry per capture group.
MatchGroups(m, s) ==
    [k \in 1..m.ngroups |->
        IF m.caps[k] = Unset THEN <<"None">>
        ELSE SubSeq(s, m.caps[k][1], m.caps[k][2] - 1)]

\* Match.group(idx): the text of group idx; IndexError for an index that is
\* negative or larger than the number of groups.
MatchGroup(m, s, idx) ==
    IF idx < 0 \/ idx > m.ngroups THEN Raise("no such group")
    ELSE IF idx = 0 THEN Ok(SubSeq(s, m.start, m.end - 1))
    ELSE Ok(MatchGroups(m, s)[idx])

(***************************************************************************)
(* The pattern tables of _get_language_specific_patterns and               *)
(* _get_cpp_patterns.                                                      *)
(***************************************************************************)

\* A literal word of a pattern.
Kw(str) == Lit(Chars(str))

\* keyword\s+ as one alternative of a modifier group
Modifier(kw) == Cat(<<kw, Spaces1>>)

\* r'class\s+(\w+)'
PyClass == Cat(<<Kw("class"), Spaces1, Grp(1, Word1)>>)
\* r'def\s+(\w+)'
PyFunction == Cat(<<Kw("def"), Spaces1, Grp(1, Word1)>>)
\* r'(import\s+\w+|from\s+\w+\s+import)'
PyImport ==
    Grp(1, Alt(<<Cat(<<Kw("import"), Spaces1, Word1>>),
                 Cat(<<Kw("from"), Spaces1, Word1, Spaces1, Kw("import")>>)>>))

\* r'(public\s+|private\s+|protected\s+)?class\s+(\w+)'
JavaClass ==
    Cat(<<Opt(Grp(1, Alt(<<Modifier(Kw("public")), Modifier(Kw("private")),
                           Modifier(Kw("protected"))>>))),
          Kw("class"), Spaces1, Grp(2, Word1)>>)
\* r'(public\s+|private\s+|protected\s+|static\s+)*\w+\s+(\w+)\s*\('
JavaFunction ==
    Cat(<<Star(Grp(1, Alt(<<Modifier(Kw("public")), Modifier(Kw("private")),
                            Modifier(Kw("protected")), Modifier(Kw("static"))>>))),
          Word1, Spaces1, Grp(2, Word1), Spaces0, Lit(<<"(">>)>>)
\* r'import\s+[\w\.]+'
JavaImport == Cat(<<Kw("import"), Spaces1, Plus(Cls(WordChars \cup {"."}))>>)

\* r'(function\s+(\w+)|(\w+)\s*:\s*function|(\w+)\s*=\s*function)'
JsFunction ==
    Grp(1, Alt(<<
        Cat(<<Kw("function"), Spaces1, Grp(2, Word1)>>),
        Cat(<<Grp(3, Word1), Spaces0, Lit(<<":">>), Spaces0, Kw("function")>>),
        Cat(<<Grp(4, Word1), Spaces0, Lit(<<"=">>), Spaces0, Kw("function")>>)>>))
\* r'(import\s+.*from|require\s*\()'
JsImport ==
    Grp(1, Alt(<<Cat(<<Kw("import"), Spaces1, Star(ReAny), Kw("from")>>),
                 Cat(<<Kw("require"), Spaces0, Lit(<<"(">>)>>)>>))

\* r'(export\s+)?class\s+(\w+)'
TsClass ==
    Cat(<<Opt(Grp(1, Modifier(Kw("export")))), Kw("class"), Spaces1, Grp(2, Word1)>>)
\* \([^)]*\)\s*=>
ArrowParams ==
    Cat(<<Lit(<<"(">>), Star(NotCls({")"})), Lit(<<")">>), Spaces0,
          Lit(<<"=", ">">>)>>)
\* r'(function\s+(\w+)|(\w+)\s*:\s*\([^)]*\)\s*=>|(\w+)\s*=\s*\([^)]*\)\s*=>)'
TsFunction ==
    Grp(1, Alt(<<
        Cat(<<Kw("function"), Spaces1, Grp(2, Word1)>>),
        Cat(<<Grp(3, Word1), Spaces0, Lit(<<":">>), Spaces0, ArrowParams>>),
        Cat(<<Grp(4, Word1), Spaces0, Lit(<<"=">>), Spaces0, ArrowParams>>)>>))

\* r'(public\s+|private\s+|internal\s+)?class\s+(\w+)'
CsClass ==
    Cat(<<Opt(Grp(1, Alt(<<Modifier(Kw("public")), Modifier(Kw("private")),
                           Modifier(Kw("internal"))>>))),
          Kw("class"), Spaces1, Grp(2, Word1)>>)
\* r'(public\s+|private\s+|protected\s+|internal\s+|static\s+)*\w+\s+(\w+)\s*\('
CsFunction ==
    Cat(<<Star(Grp(1, Alt(<<Modifier(Kw("public")), Modifier(Kw("private")),
                            Modifier(Kw("protected")), Modifier(Kw("internal")),
                            Modifier(Kw("static"))>>))),
          Word1, Spaces1, Grp(2, Word1), Spaces0, Lit(<<"(">>)>>)
\* r'using\s+[\w\.]+'
CsImport == Cat(<<Kw("using"), Spaces1, Plus(Cls(WordChars \cup {"."}))>>)

\* r'(pub\s+)?struct\s+(\w+)'
RustClass ==
    Cat(<<Opt(Grp(1, Modifier(Kw("pub")))), Kw("struct"), Spaces1, Grp(2, Word1)>>)
\* r'(pub\s+)?fn\s+(\w+)'
RustFunction ==
    Cat(<<Opt(Grp(1, Modifier(Kw("pub")))), Kw("fn"), Spaces1, Grp(2, Word1)>>)
\* r'use\s+[\w:]+'
RustImport == Cat(<<Kw("use"), Spaces1, Plus(Cls(WordChars \cup {":"}))>>)

\* r'(\w+)\s+(\w+)\s*\('
CppFunction ==
    Cat(<<Grp(1, Word1), Spaces1, Grp(2, Word1), Spaces0, Lit(<<"(">>)>>)
\* r'#include\s+[<\"][^>\"]*[>\"]'
CppImport ==
    Cat(<<Kw("#include"), Spaces1, Cls({"<", "\""}), Star(NotCls({">", "\""})),
          Cls({">", "\""})>>)

\* The members of the Language enumeration the server uses.
Languages == {"PYTHON", "JAVA", "JAVASCRIPT", "TYPESCRIPT", "CSHARP", "RUST"}

\* str(language): the member's value, the language tag.
LanguageStr(language) ==
    CASE language = "PYTHON" -> "python"
      [] language = "JAVA" -> "java"
      [] language = "JAVASCRIPT" -> "javascript"
      [] language = "TYPESCRIPT" -> "typescript"
      [] language = "CSHARP" -> "csharp"
      [] language = "RUST" -> "rust"

PythonPatterns ==
    [class |-> PyClass, function |-> PyFunction, import |-> PyImport]

\* _get_language_specific_patterns: patterns.get(language, patterns[PYTHON])
GetLanguageSpecificPatterns(language) ==
    CASE language = "PYTHON" -> PythonPatterns
      [] language = "JAVA" ->
            [class |-> JavaClass, function |-> JavaFunction,
             import |-> JavaImport]
      [] language = "JAVASCRIPT" ->
            [class |-> PyClass, function |-> JsFunction, import |-> JsImport]
      [] language = "TYPESCRIPT" ->
            [class |-> TsClass, function |-> TsFunction, import |-> JsImport]
      [] language = "CSHARP" ->
            [class |-> CsClass, function |-> CsFunction, import |-> CsImport]
      [] language = "RUST" ->
            [class |-> RustClass, function |-> RustFunction,
             import |-> RustImport]
      [] OTHER -> PythonPatterns

\* _get_cpp_patterns
GetCppPatterns ==
    [class |-> PyClass, function |-> CppFunction, import |-> CppImport]

(***************************************************************************)
(* The world the requests are drawn from: two project roots, the files of  *)
(* the first one, and paths that name no file.                             *)
(***************************************************************************)
\* "/p"
RootP == Chars("/p")
\* "/q"
RootQ == Chars("/q")
\* "/p/foo.py"
SrcFoo == Chars("/p/foo.py")
\* "/p/plain.py"
SrcPlain == Chars("/p/plain.py")
\* "/p/defs.h"
SrcDefs == Chars("/p/defs.h")
\* "/p/gone.py": no such file
SrcGone == Chars("/p/gone.py")
\* "/p/tests/test_foo.py"
TestFoo == Chars("/p/tests/test_foo.py")
\* "/p/tests/test_none.py": no such file
TestNone == Chars("/p/tests/test_none.py")


ProjectRoots == {RootP, RootQ}
SourceFiles == {SrcFoo, SrcPlain, SrcDefs, SrcGone}
TestFiles == {TestFoo, TestNone}

\* The file system: the files that exist, with their contents.
Files ==
    (SrcFoo :> Chars("class Foo:\n    def bar(self): pass"))
        @@ (SrcPlain :>
                Chars("import os\n# note\nx = 1\nassert x\nassert x\nassert x\n"
                          \o "assert x\nassert x\nassert x\n"))
        @@ (SrcDefs :> Chars("#include <a.h>"))
        @@ (TestFoo :>
                Chars("class TestFoo:\n    def test_bar(self): pass\n# end"))

\* os.path.exists(path), Path.exists()
FileExists(path) == path \in DOMAIN Files

\* open(path, 'r').read(): the content, or FileNotFoundError.
ReadFile(path) ==
    IF FileExists(path) THEN Ok(Files[path])
    ELSE Raise("[Errno 2] No such file or directory: '" \o Join(path) \o "'")

(***************************************************************************)
(* The server object and the process around it.                            *)
(***************************************************************************)
VARIABLES
    lsp_server,           \* self.lsp_server: Optional[LanguageServer]
    project_root,         \* self.project_root: Optional[str]
    project_language,     \* self.project_language: str
    language_extensions,  \* self.language_extensions: suffix -> Language
    test_frameworks,      \* self.test_frameworks: Language -> command, flag
    tools,                \* the tool names registered with self.server
    running,              \* whether run() has started serving
    task,                 \* the handler invocation in flight, if any
    parked,               \* a handler suspended at an await, set aside
    stdout                \* the first lines the process wrote to stdout

vars ==
    <<lsp_server, project_root, project_language, language_extensions,
      test_frameworks, tools, running, task, parked, stdout>>

\* The six operations, by the names they are registered under.
ToolNames ==
    {"analyze_code_context", "get_coverage_gaps", "analyze_test_structure",
     "get_test_generation_context", "validate_test_coverage",
     "auto_generate_tests_for_coverage"}

\* The language extension mapping __init__ builds.
LanguageExtensions ==
    (".py" :> "PYTHON") @@ (".java" :> "JAVA") @@ (".js" :> "JAVASCRIPT")
        @@ (".ts" :> "TYPESCRIPT") @@ (".cs" :> "CSHARP") @@ (".rs" :> "RUST")
        @@ (".cpp" :> "CSHARP") @@ (".cc" :> "CSHARP") @@ (".cxx" :> "CSHARP")
        @@ (".c" :> "CSHARP") @@ (".h" :> "CSHARP") @@ (".hpp" :> "CSHARP")

\* The test framework mapping __init__ builds.
TestFrameworks ==
    [l \in Languages |->
        CASE l = "PYTHON" -> [command |-> "python -m pytest", coverage |-> "--cov"]
          [] l = "JAVA" -> [command |-> "mvn test", coverage |-> ""]
          [] l = "JAVASCRIPT" -> [command |-> "npm test", coverage |-> "--coverage"]
          [] l = "TYPESCRIPT" -> [command |-> "npm test", coverage |-> "--coverage"]
          [] l = "CSHARP" ->
                [command |-> "dotnet test",
                 coverage |-> "--collect:\"XPlat Code Coverage\""]
          [] l = "RUST" -> [command |-> "cargo test", coverage |-> ""]]

\* A line print() wrote to stdout, and a line the protocol adapter wrote.
PrintLine == [kind |-> "text"]
RpcLine == [kind |-> "jsonrpc"]

\* stdout after n more print() calls, as far as the model records it.
Printed(out, n) ==
    LET all == out \o [i \in 1..n |-> PrintLine]
    IN  IF Len(all) > MaxStdout THEN Upto(all, MaxStdout) ELSE all

\* _detect_language: the suffix, lower-cased, looked up with Python as the
\* default.  It prints one line.
DetectLanguage(file_path) ==
    LET file_ext == Join(ToLower(PathSuffix(file_path)))
    IN  IF file_ext \in DOMAIN language_extensions
        THEN language_extensions[file_ext] ELSE "PYTHON"

\* file_ext in ['.cpp', '.cc', '.cxx', '.c', '.h', '.hpp']
IsCppFile(file_path) ==
    Join(ToLower(PathSuffix(file_path)))
        \in {".cpp", ".cc", ".cxx", ".c", ".h", ".hpp"}


\* match.group(-1) if match.groups() else "Unknown"
MatchedName(m, stripped) ==
    IF MatchGroups(m, stripped) # <<>> THEN MatchGroup(m, stripped, -1)
    ELSE Ok(Chars("Unknown"))

\* One pass of the loop body of _analyze_file_structure_multilang: line i,
\* stripped, with what re.search found for the three patterns, added to the
\* lists collected so far; or the exception the body raised.
ScanLine(i, stripped, import_match, class_match, func_match, acc) ==
    LET class_name ==
            IF class_match # Nothing
            THEN MatchedName(class_match[1], stripped) ELSE Ok(<<>>)
        func_name ==
            IF func_match # Nothing
            THEN MatchedName(func_match[1], stripped) ELSE Ok(<<>>)
    IN  IF ~class_name.ok THEN class_name
        ELSE IF ~func_name.ok THEN func_name
        ELSE Ok([imports |->
                     IF import_match # Nothing
                     THEN Append(acc.imports,
                                 [line |-> i, content |-> Join(stripped)])
                     ELSE acc.imports,
                 classes |->
                     IF class_match # Nothing
                     THEN Append(acc.classes,
                                 [line |-> i, name |-> Join(class_name.val),
                                  content |-> Join(stripped)])
                     ELSE acc.classes,
                 functions |->
                     IF func_match # Nothing
                     THEN Append(acc.functions,
                                 [line |-> i, name |-> Join(func_name.val),
                                  content |-> Join(stripped)])
                     ELSE acc.functions])

\* The loop of _analyze_file_structure_multilang from line i on, with the
\* lists collected so far; an exception raised in the body ends it.
RECURSIVE ScanStructure(_, _, _, _), ScanRest(_, _, _, _)
ScanStructure(lines, i, patterns, acc) ==
    IF i > Len(lines) THEN Ok(acc)
    ELSE ScanRest(lines, i, patterns,
                  ScanLine(i, Strip(lines[i]),
                           ReSearch(patterns.import, Strip(lines[i])),
                           ReSearch(patterns.class, Strip(lines[i])),
                           ReSearch(patterns.function, Strip(lines[i])),
                           acc))
ScanRest(lines, i, patterns, scanned) ==
    IF ~scanned.ok THEN scanned
    ELSE ScanStructure(lines, i + 1, patterns, scanned.val)

\* The dict _analyze_file_structure_multilang returns for a finished scan.
StructureOf(scan, total_lines, file_path, detected_language) ==
    IF ~scan.ok THEN scan
    ELSE Ok([total_lines |-> total_lines,
             classes |-> scan.val.classes,
             functions |-> scan.val.functions,
             imports |-> scan.val.imports,
             file_type |-> Join(PathSuffix(file_path)),
             language |-> detected_language])

\* _analyze_file_structure_multilang(content, file_path, language): the
\* structure summary, or the exception the scan raised.
AnalyzeFileStructureMultilang(content, file_path, language) ==
    StructureOf(
        ScanStructure(Split(content, <<"\n">>), 1,
                      IF IsCppFile(file_path) THEN GetCppPatterns
                      ELSE GetLanguageSpecificPatterns(language),
                      [imports |-> <<>>, classes |-> <<>>,
                       functions |-> <<>>]),
        Len(Split(content, <<"\n">>)),
        file_path,
        IF IsCppFile(file_path) THEN "cpp" ELSE LanguageStr(language))

\* _generate_context_suggestions
GenerateContextSuggestions(file_analysis, context_files) ==
    (IF file_analysis.classes # <<>>
     THEN <<"Found " \o ToString(Len(file_analysis.classes))
                \o " classes that need testing">>
     ELSE <<>>)
    \o (IF file_analysis.functions # <<>>
        THEN <<"Found " \o ToString(Len(file_analysis.functions))
                   \o " functions that need testing">>
        ELSE <<>>)
    \o (IF context_files # <<>>
        THEN <<"Found " \o ToString(Len(context_files))
                   \o " related files for context">>
        ELSE <<>>)

\* json.dumps(obj): the JSON text of a dict of strings, numbers, lists and
\* dicts; json.loads(text): the dict the text denotes.
JsonDumps(obj) == [json |-> obj]
JsonLoads(text) == text.json

\* An except branch that names the outcome "failure".
ErrorResultFailure(msg) == [status |-> "failure", error |-> msg]

\* An except branch that also reports the stage that failed.
ErrorResultWithStage(msg) ==
    [status |-> "error", error |-> msg, stage |-> "handler"]

\* The two-field record every except branch builds.
ErrorResult(msg) == [status |-> "error", error |-> msg]

(***************************************************************************)
(* get_coverage_gaps and its helpers.                                      *)
(***************************************************************************)

\* coverage_report_path, as the if/elif chain of get_coverage_gaps sets it.
CoverageReportPath(detected_language, root) ==
    CASE detected_language = "PYTHON" -> OsPathJoin(root, Chars("coverage.xml"))
      [] detected_language = "JAVA" ->
            OsPathJoin(root, Chars("target/site/jacoco/jacoco.xml"))
      [] detected_language \in {"JAVASCRIPT", "TYPESCRIPT"} ->
            OsPathJoin(root, Chars("coverage/lcov.info"))
      [] detected_language = "CSHARP" ->
            OsPathJoin(root, Chars("TestResults/*/coverage.cobertura.xml"))
      [] detected_language = "RUST" ->
            OsPathJoin(root, Chars("target/coverage/coverage.xml"))
      [] OTHER -> OsPathJoin(root, Chars("coverage.xml"))

\* Where the command get_coverage_gaps runs for a language leaves its
\* coverage report when it writes one: pytest --cov-report=xml and the
\* jacoco and lcov reporters write the fixed paths below the project root,
\* dotnet test writes below a directory it names per run, and cargo test
\* writes none.
ArtifactPath(detected_language, root) ==
    CASE detected_language = "PYTHON" -> Some(OsPathJoin(root, Chars("coverage.xml")))
      [] detected_language = "JAVA" ->
            Some(OsPathJoin(root, Chars("target/site/jacoco/jacoco.xml")))
      [] detected_language \in {"JAVASCRIPT", "TYPESCRIPT"} ->
            Some(OsPathJoin(root, Chars("coverage/lcov.info")))
      [] detected_language = "CSHARP" ->
            Some(OsPathJoin(root,
                            Chars("TestResults/0a1b/coverage.cobertura.xml")))
      [] OTHER -> Nothing

\* subprocess.run(test_command, shell=True, ...): the exit code and stderr.
RunOutcomes ==
    {[returncode |-> 0, stderr |-> ""],
     [returncode |-> 1, stderr |-> "1 failed"]}

\* CoverageProcessor(...).parse_coverage_report(): the covered lines, the
\* uncovered lines and the percentage, or an exception.
ParserOutcomes ==
    {Ok([covered |-> <<1, 2>>, uncovered |-> <<>>, percentage |-> 100]),
     Ok([covered |-> <<1>>, uncovered |-> <<2>>, percentage |-> 50]),
     Ok([covered |-> <<>>, uncovered |-> <<1, 2, 4, 5, 6, 7, 8, 9, 12>>,
         percentage |-> 0]),
     Raise("malformed coverage report"),
     Raise("")}

\* What one test run does: the runner's exit, whether it wrote its report,
\* and what the parser makes of the report.
RunEnvs == [run : RunOutcomes, wrote : BOOLEAN, parser : ParserOutcomes]

\* os.path.exists(coverage_report_path) after the run.
ReportExists(path, detected_language, root, env) ==
    \/ FileExists(path)
    \/ env.wrote /\ ArtifactPath(detected_language, root) = Some(path)

\* critical_patterns of _is_critical_line
CriticalPatterns ==
    {<<"i", "f", " ", "_", "_", "n", "a", "m", "e", "_", "_", " ", "=", "=",
       " ", "\"", "_", "_", "m", "a", "i", "n", "_", "_", "\"">>,
     <<"r", "a", "i", "s", "e", " ">>,
     <<"r", "e", "t", "u", "r", "n", " ">>,
     <<"a", "s", "s", "e", "r", "t", " ">>,
     <<"e", "x", "c", "e", "p", "t", " ">>,
     <<"f", "i", "n", "a", "l", "l", "y", ":">>,
     <<"w", "i", "t", "h", " ">>,
     <<"d", "e", "f", " ">>,
     <<"c", "l", "a", "s", "s", " ">>}

\* _is_critical_line
IsCriticalLine(line_content) ==
    \E pattern \in CriticalPatterns : Contains(line_content, pattern)

\* The loop of _analyze_uncovered_lines over uncovered_lines[k..].
RECURSIVE UncoveredContent(_, _, _)
UncoveredContent(lines, uncovered_lines, k) ==
    IF k > Len(uncovered_lines) THEN <<>>
    ELSE
      LET line_num == uncovered_lines[k]
          rest == UncoveredContent(lines, uncovered_lines, k + 1)
      IN  IF 0 < line_num /\ line_num <= Len(lines)
          THEN LET line_content == Strip(lines[line_num])
               IN  IF line_content # <<>> /\ ~StartsWith(line_content, <<"#">>)
                   THEN <<[line |-> line_num,
                           content |-> Join(line_content),
                           critical |-> IsCriticalLine(line_content)]>>
                        \o rest
                   ELSE rest
          ELSE rest

\* An entry of uncovered_content as the result dict holds it.
LineEntry(e) == [line |-> e.line, content |-> e.content]

\* _analyze_uncovered_lines: the analysis, or {"error": str(e)} when the
\* source file cannot be read.
AnalyzeUncoveredLines(source_file, uncovered_lines) ==
    LET read == ReadFile(source_file)
    IN  IF ~read.ok THEN [error |-> read.exc]
        ELSE
          LET content ==
                  UncoveredContent(ReadLines(read.val), uncovered_lines, 1)
              critical == SelectSeq(content, LAMBDA e : e.critical)
          IN  [uncovered_lines |->
                   [i \in 1..Len(content) |-> LineEntry(content[i])],
               total_uncovered |-> Len(uncovered_lines),
               critical_lines |->
                   [i \in 1..Len(critical) |-> LineEntry(critical[i])]]

\* d.get("critical_lines"), [] when the key is absent
CriticalLinesOf(uncovered_analysis) ==
    IF "critical_lines" \in DOMAIN uncovered_analysis
    THEN uncovered_analysis.critical_lines ELSE <<>>

\* f"{x:.1f}" of a whole percentage
Format1f(x) == ToString(x) \o ".0"

\* _generate_coverage_suggestions
GenerateCoverageSuggestions(uncovered_analysis, coverage_percentage) ==
    (IF coverage_percentage < 80
     THEN <<"Coverage is low (" \o Format1f(coverage_percentage)
                \o "%). Focus on critical uncovered lines.">>
     ELSE <<>>)
    \o (IF CriticalLinesOf(uncovered_analysis) # <<>>
        THEN <<"Found "
                   \o ToString(Len(CriticalLinesOf(uncovered_analysis)))
                   \o " critical uncovered lines">>
        ELSE <<>>)

\* The result of a handler call: the text it returns, the number of lines it
\* printed, the failures that happened on the way, and the calls it made, in
\* the order it made them.
Returned(ret, printed, failures) ==
    [ret |-> ret, printed |-> printed, failures |-> failures, calls |-> <<>>]

\* A call a handler made of a collaborator, a library function or a helper,
\* with what came of it.
Called(call, result) == [call |-> call, result |-> result, value |-> Nothing]

\* The return of an operation another handler awaited: the status of the
\* payload, and the text.
SubReturned(op, out) ==
    [call |-> op, result |-> JsonLoads(out.ret).status, value |-> Some(out.ret)]

\* The result out of a handler that made the calls before it got there.
After(calls, out) == [out EXCEPT !.calls = calls \o @]

\* A success result of get_coverage_gaps that takes the parser's percentage
\* for a fraction and scales it.
CoverageResultScaled(source_file, test_file, parsed, uncovered_analysis) ==
    Returned(
      JsonDumps(
        [coverage_percentage |-> parsed.percentage * 100,
         covered_lines |-> parsed.covered,
         uncovered_lines |-> parsed.uncovered,
         uncovered_analysis |-> uncovered_analysis,
         source_file |-> Join(source_file),
         test_file |-> Join(test_file),
         status |-> "success",
         suggestions |->
             GenerateCoverageSuggestions(uncovered_analysis,
                                         parsed.percentage * 100)]),
      2,
      IF "error" \in DOMAIN uncovered_analysis
      THEN {"uncovered_read"} ELSE {})

\* The success result of get_coverage_gaps.
CoverageResult(source_file, test_file, parsed, uncovered_analysis) ==
    Returned(
      JsonDumps(
        [coverage_percentage |-> parsed.percentage,
         covered_lines |-> parsed.covered,
         uncovered_lines |-> parsed.uncovered,
         uncovered_analysis |-> uncovered_analysis,
         source_file |-> Join(source_file),
         test_file |-> Join(test_file),
         status |-> "success",
         suggestions |->
             GenerateCoverageSuggestions(uncovered_analysis,
                                         parsed.percentage)]),
      2,
      IF "error" \in DOMAIN uncovered_analysis
      THEN {"uncovered_read"} ELSE {})

\* A get_coverage_gaps that hands the report to the parser without looking
\* whether the run wrote it.
GetCoverageGapsParsingUnchecked(source_file, test_file, root, env) ==
    IF env.run.returncode # 0
    THEN After(<<Called("subprocess.run", ToString(env.run.returncode))>>,
               Returned(JsonDumps(ErrorResult("Test execution failed: "
                                                  \o env.run.stderr)),
                        2, {"runner_exit"}))
    ELSE IF ~ReportExists(CoverageReportPath(DetectLanguage(source_file),
                                             root),
                          DetectLanguage(source_file), root, env)
    THEN After(<<Called("subprocess.run", "0"),
                 Called("parse_coverage_report", "raised")>>,
               Returned(JsonDumps(ErrorResult("Coverage report not generated")),
                        3,
                        IF env.wrote
                              /\ ArtifactPath(DetectLanguage(source_file), root)
                                     # Nothing
                        THEN {"report_missing", "report_elsewhere"}
                        ELSE {"report_missing"}))
    ELSE IF ~env.parser.ok
    THEN After(<<Called("subprocess.run", "0"),
                 Called("parse_coverage_report", "raised")>>,
               Returned(JsonDumps(ErrorResult(env.parser.exc)), 3, {"parser"}))
    ELSE After(<<Called("subprocess.run", "0"),
                 Called("parse_coverage_report", "returned"),
                 Called("_analyze_uncovered_lines", "returned")>>,
               CoverageResult(source_file, test_file, env.parser.val,
                              AnalyzeUncoveredLines(source_file,
                                                    env.parser.val.uncovered)))

\* A get_coverage_gaps that runs the test command a second time when the
\* first run exits non-zero.
GetCoverageGapsRetrying(source_file, test_file, root, env) ==
    IF env.run.returncode # 0
    THEN After(<<Called("subprocess.run", ToString(env.run.returncode)),
                 Called("subprocess.run", ToString(env.run.returncode))>>,
               Returned(JsonDumps(ErrorResult("Test execution failed: "
                                                  \o env.run.stderr)),
                        2, {"runner_exit"}))
    ELSE IF ~ReportExists(CoverageReportPath(DetectLanguage(source_file),
                                             root),
                          DetectLanguage(source_file), root, env)
    THEN After(<<Called("subprocess.run", "0"),
                 Called("os.path.exists", "False")>>,
               Returned(JsonDumps(ErrorResult("Coverage report not generated")),
                        2,
                        IF env.wrote
                              /\ ArtifactPath(DetectLanguage(source_file), root)
                                     # Nothing
                        THEN {"report_missing", "report_elsewhere"}
                        ELSE {"report_missing"}))
    ELSE IF ~env.parser.ok
    THEN After(<<Called("subprocess.run", "0"),
                 Called("os.path.exists", "True"),
                 Called("parse_coverage_report", "raised")>>,
               Returned(JsonDumps(ErrorResult(env.parser.exc)), 3, {"parser"}))
    ELSE After(<<Called("subprocess.run", "0"),
                 Called("os.path.exists", "True"),
                 Called("parse_coverage_report", "returned"),
                 Called("_analyze_uncovered_lines", "returned")>>,
               CoverageResult(source_file, test_file, env.parser.val,
                              AnalyzeUncoveredLines(source_file,
                                                    env.parser.val.uncovered)))

\* get_coverage_gaps(source_file, test_file, project_root) in a world where
\* the test run goes as env says.
GetCoverageGaps(source_file, test_file, root, env) ==
    IF env.run.returncode # 0
    THEN After(<<Called("subprocess.run", ToString(env.run.returncode))>>,
               Returned(JsonDumps(ErrorResult("Test execution failed: "
                                                  \o env.run.stderr)),
                        2, {"runner_exit"}))
    ELSE IF ~ReportExists(CoverageReportPath(DetectLanguage(source_file),
                                             root),
                          DetectLanguage(source_file), root, env)
    THEN After(<<Called("subprocess.run", "0"),
                 Called("os.path.exists", "False")>>,
               Returned(JsonDumps(ErrorResult("Coverage report not generated")),
                        2,
                        IF env.wrote
                              /\ ArtifactPath(DetectLanguage(source_file), root)
                                     # Nothing
                        THEN {"report_missing", "report_elsewhere"}
                        ELSE {"report_missing"}))
    ELSE IF ~env.parser.ok
    THEN After(<<Called("subprocess.run", "0"),
                 Called("os.path.exists", "True"),
                 Called("parse_coverage_report", "raised")>>,
               Returned(JsonDumps(ErrorResult(env.parser.exc)), 3, {"parser"}))
    ELSE After(<<Called("subprocess.run", "0"),
                 Called("os.path.exists", "True"),
                 Called("parse_coverage_report", "returned"),
                 Called("_analyze_uncovered_lines", "returned")>>,
               CoverageResult(source_file, test_file, env.parser.val,
                              AnalyzeUncoveredLines(source_file,
                                                    env.parser.val.uncovered)))

(***************************************************************************)
(* analyze_test_structure and its helpers.                                 *)
(***************************************************************************)

\* The loop of _analyze_test_structure from line i on.
RECURSIVE ScanTests(_, _, _)
ScanTests(lines, i, acc) ==
    IF i > Len(lines) THEN acc
    ELSE
      LET stripped == Strip(lines[i])
      IN  IF /\ StartsWith(stripped, Chars("class "))
             /\ Contains(stripped, Chars("Test"))
             /\ Contains(stripped, <<":">>)
          THEN
            LET class_name ==
                    Strip(Split(Split(Split(stripped, Chars("class "))[2],
                                      <<"(">>)[1], <<":">>)[1])
            IN  ScanTests(lines, i + 1,
                          [acc EXCEPT !.test_classes =
                               Append(@, [line |-> i,
                                          name |-> Join(class_name)])])
          ELSE IF StartsWith(stripped, Chars("def test_"))
                  /\ Contains(stripped, <<":">>)
          THEN
            LET func_name ==
                    Strip(Split(Split(stripped, Chars("def "))[2], <<"(">>)[1])
            IN  ScanTests(lines, i + 1,
                          [acc EXCEPT !.test_functions =
                               Append(@, [line |-> i,
                                          name |-> Join(func_name)])])
          ELSE ScanTests(lines, i + 1, acc)

\* _analyze_test_structure(test_content, test_file)
AnalyzeTestStructureOf(test_content, test_file) ==
    LET found == ScanTests(Split(test_content, <<"\n">>), 1,
                           [test_classes |-> <<>>, test_functions |-> <<>>])
    IN  [test_classes |-> found.test_classes,
         test_functions |-> found.test_functions,
         total_tests |-> Len(found.test_functions),
         file_type |-> Join(PathSuffix(test_file))]

\* The first path of a list that names an existing file, as str, or None.
RECURSIVE FirstExisting(_, _)
FirstExisting(paths, k) ==
    IF k > Len(paths) THEN None
    ELSE IF FileExists(paths[k]) THEN Join(paths[k])
    ELSE FirstExisting(paths, k + 1)

\* _find_source_file_for_test(test_file, project_root)
FindSourceFileForTest(test_file, root) ==
    LET test_name == PathStem(test_file)
        possible_names ==
            <<Replace(test_name, Chars("test_"), <<>>),
              Replace(Replace(test_name, Chars("test_"), <<>>), Chars("Test"), <<>>),
              Replace(test_name, Chars("Test"), <<>>)>>
        exts == <<<<".", "p", "y">>, <<".", "j", "s">>, <<".", "t", "s">>,
                  <<".", "j", "a", "v", "a">>>>
        dir == PathParent(PathParent(test_file))
        candidates ==
            [k \in 1..12 |->
                PathJoin(dir, possible_names[((k - 1) \div 4) + 1]
                                  \o exts[((k - 1) % 4) + 1])]
    IN  FirstExisting(candidates, 1)

\* _generate_test_structure_suggestions
GenerateTestStructureSuggestions(test_analysis) ==
    IF test_analysis.total_tests < 3
    THEN <<"Very few tests found. Consider adding more comprehensive test cases.">>
    ELSE <<>>

\* The success result of analyze_test_structure.
TestStructureResult(test_file, root, test_analysis) ==
    Returned(
      JsonDumps(
        [test_file |-> Join(test_file),
         source_file |-> FindSourceFileForTest(test_file, root),
         test_analysis |-> test_analysis,
         project_root |-> Join(root),
         status |-> "success",
         suggestions |-> GenerateTestStructureSuggestions(test_analysis)]),
      1, {})

\* analyze_test_structure(test_file, project_root)
AnalyzeTestStructure(test_file, root) ==
    IF ~FileExists(test_file)
    THEN After(<<Called("Path.exists", "False")>>,
               Returned(JsonDumps(ErrorResult("Test file " \o Join(test_file)
                                                  \o " does not exist")),
                        1, {"test_missing"}))
    ELSE IF ~ReadFile(test_file).ok
    THEN After(<<Called("Path.exists", "True"), Called("open", "raised")>>,
               Returned(JsonDumps(ErrorResult(ReadFile(test_file).exc)), 2,
                        {"test_read"}))
    ELSE After(<<Called("Path.exists", "True"), Called("open", "returned"),
                 Called("_analyze_test_structure", "returned")>>,
               TestStructureResult(
                   test_file, root,
                   AnalyzeTestStructureOf(ReadFile(test_file).val, test_file)))

(***************************************************************************)
(* validate_test_coverage and auto_generate_tests_for_coverage.            *)
(***************************************************************************)
\* _analyze_test_quality: the metrics, or {"error": str(e)} when the test
\* file cannot be read.  test_density is the ratio code_lines / total_lines.
AnalyzeTestQuality(test_file, source_file) ==
    LET read == ReadFile(test_file)
    IN  IF ~read.ok THEN [error |-> read.exc]
        ELSE
          LET lines == Split(read.val, <<"\n">>)
              total_lines == Len(lines)
              comment_lines ==
                  Len(SelectSeq(lines,
                                 LAMBDA l : StartsWith(Strip(l), <<"#">>)))
              empty_lines ==
                  Len(SelectSeq(lines, LAMBDA l : Strip(l) = <<>>))
              code_lines == total_lines - comment_lines - empty_lines
          IN  [total_lines |-> total_lines,
               code_lines |-> code_lines,
               comment_lines |-> comment_lines,
               empty_lines |-> empty_lines,
               test_density |->
                   IF total_lines > 0
                   THEN [num |-> code_lines, den |-> total_lines]
                   ELSE [num |-> 0, den |-> 1]]

\* test_quality.get("test_density", 0) < 0.7
LowDensity(test_quality) ==
    IF "test_density" \in DOMAIN test_quality
    THEN 10 * test_quality.test_density.num < 7 * test_quality.test_density.den
    ELSE TRUE

\* _generate_improvement_suggestions
GenerateImprovementSuggestions(coverage_gaps, test_quality) ==
    (IF coverage_gaps.status = "success"
        /\ coverage_gaps.coverage_percentage < 90
     THEN <<"Increase coverage from "
                \o Format1f(coverage_gaps.coverage_percentage)
                \o "% to 90%+">>
     ELSE <<>>)
    \o (IF LowDensity(test_quality)
        THEN <<"Improve test density by adding more test cases">>
        ELSE <<>>)

\* A validate_test_coverage that does not look at the status of what
\* get_coverage_gaps returned and wraps it as it is.
ValidateWithoutErrorCheck(source_file, test_file, gaps, test_quality) ==
    After(
      gaps.calls \o <<SubReturned("get_coverage_gaps", gaps),
                      Called("_analyze_test_quality", "returned"),
                      Called("_generate_improvement_suggestions", "returned")>>,
      Returned(
        JsonDumps(
          [coverage_analysis |-> JsonLoads(gaps.ret),
           test_quality |-> test_quality,
           improvement_suggestions |->
               GenerateImprovementSuggestions(JsonLoads(gaps.ret),
                                              test_quality),
           status |-> "success"]),
        1 + gaps.printed,
        gaps.failures \cup
            (IF "error" \in DOMAIN test_quality
             THEN {"test_quality_read"} ELSE {})))

\* validate_test_coverage after its call of get_coverage_gaps returned
\* gaps: an error is passed on as it is.
ValidateWith(source_file, test_file, gaps, test_quality) ==
    IF JsonLoads(gaps.ret).status = "error"
    THEN After(gaps.calls \o <<SubReturned("get_coverage_gaps", gaps)>>,
               Returned(gaps.ret, 1 + gaps.printed, gaps.failures))
    ELSE After(
           gaps.calls
               \o <<SubReturned("get_coverage_gaps", gaps),
                    Called("_analyze_test_quality", "returned"),
                    Called("_generate_improvement_suggestions", "returned")>>,
           Returned(
             JsonDumps(
               [coverage_analysis |-> JsonLoads(gaps.ret),
                test_quality |-> test_quality,
                improvement_suggestions |->
                    GenerateImprovementSuggestions(JsonLoads(gaps.ret),
                                                   test_quality),
                status |-> "success"]),
             1 + gaps.printed,
             gaps.failures \cup
                 (IF "error" \in DOMAIN test_quality
                  THEN {"test_quality_read"} ELSE {})))

\* validate_test_coverage(source_file, test_file, project_root)
ValidateTestCoverage(source_file, test_file, root, env) ==
    ValidateWith(source_file, test_file,
                 GetCoverageGaps(source_file, test_file, root, env),
                 AnalyzeTestQuality(test_file, source_file))

\* A slice that keeps every element.
FirstNUnbounded(seq, n) == seq

\* critical_lines[:5]
FirstN(seq, n) == IF Len(seq) > n THEN Upto(seq, n) ELSE seq

\* _generate_test_suggestions_for_coverage; uncovered_analysis never holds
\* uncovered_functions or uncovered_classes, so those loops add nothing.
GenerateTestSuggestionsForCoverage(uncovered_analysis) ==
    LET critical_lines == FirstN(CriticalLinesOf(uncovered_analysis), 5)
    IN  [i \in 1..Len(critical_lines) |->
            "Test line " \o ToString(critical_lines[i].line) \o ": "
                \o critical_lines[i].content]
        \o <<"Add tests for edge cases and error conditions",
             "Add tests for boundary conditions">>

\* ', '.join(items)
RECURSIVE CommaJoin(_)
CommaJoin(items) ==
    IF items = <<>> THEN ""
    ELSE IF Len(items) = 1 THEN items[1]
    ELSE items[1] \o ", " \o CommaJoin(Tail(items))

\* lang_info['framework'] of _create_test_generation_prompt
FrameworkOf(source_file, detected_language) ==
    IF IsCppFile(source_file) THEN "Google Test (gtest)"
    ELSE CASE detected_language = "PYTHON" -> "pytest"
           [] detected_language = "JAVA" -> "JUnit 5"
           [] detected_language = "JAVASCRIPT" -> "Jest"
           [] detected_language = "TYPESCRIPT" -> "Jest with TypeScript"
           [] detected_language = "CSHARP" -> "xUnit"
           [] detected_language = "RUST" -> "Rust built-in test framework"
           [] OTHER -> "pytest"

\* _create_test_generation_prompt: the prompt's heading and the lines that
\* depend on the arguments; the fixed guidance text is left out.
CreateTestGenerationPrompt(source_file, test_file, uncovered_lines, test_suggestions) ==
    LET detected_language == DetectLanguage(source_file)
        tag == IF IsCppFile(source_file) THEN "cpp"
               ELSE LanguageStr(detected_language)
        upper == IF IsCppFile(source_file) THEN "CPP" ELSE detected_language
        framework == FrameworkOf(source_file, detected_language)
    IN  "# Test Generation Task (" \o upper \o ")\n"
            \o "## Source File: " \o Join(source_file) \o "\n"
            \o "## Test File: " \o Join(test_file) \o "\n"
            \o "## Language: " \o tag \o "\n"
            \o "## Test Framework: " \o framework \o "\n"
            \o "- Uncovered lines: " \o ToString(Len(uncovered_lines))
            \o " lines\n"
            \o "- Focus areas: " \o CommaJoin(FirstN(test_suggestions, 3))
            \o "\n"

\* The result of auto_generate_tests_for_coverage when the target is not
\* reached yet.
GenerationResult(current, target, uncovered_lines, test_suggestions, prompt) ==
    JsonDumps(
      [status |-> "success",
       current_coverage |-> current,
       target_coverage |-> target,
       coverage_gap |-> target - current,
       uncovered_lines_count |-> Len(uncovered_lines),
       test_suggestions |-> test_suggestions,
       test_generation_prompt |-> prompt,
       message |->
           "Generated test suggestions to improve coverage from "
               \o ToString(current) \o "% to " \o ToString(target) \o "%"])

\* An auto_generate_tests_for_coverage that wraps the error of
\* get_coverage_gaps in a message of its own.
AutoGenerateWithRewrapping(source_file, test_file, target_coverage, gaps, coverage_gaps) ==
    IF coverage_gaps.status = "error"
    THEN After(gaps.calls \o <<SubReturned("get_coverage_gaps", gaps)>>,
               Returned(JsonDumps(ErrorResult("Coverage analysis failed: "
                                                  \o coverage_gaps.error)),
                        1 + gaps.printed, gaps.failures))
    ELSE IF coverage_gaps.coverage_percentage >= target_coverage
    THEN After(
           gaps.calls \o <<SubReturned("get_coverage_gaps", gaps)>>,
           Returned(
             JsonDumps(
               [status |-> "success",
                message |->
                    "Target coverage " \o ToString(target_coverage)
                        \o "% already achieved (current: "
                        \o ToString(coverage_gaps.coverage_percentage)
                        \o "%)",
                current_coverage |-> coverage_gaps.coverage_percentage,
                target_coverage |-> target_coverage,
                improvement |-> 0]),
             2 + gaps.printed, gaps.failures))
    ELSE After(
           gaps.calls
               \o <<SubReturned("get_coverage_gaps", gaps),
                    Called("_generate_test_suggestions_for_coverage",
                           "returned"),
                    Called("_create_test_generation_prompt", "returned")>>,
           Returned(
             GenerationResult(
               coverage_gaps.coverage_percentage, target_coverage,
               coverage_gaps.uncovered_lines,
               GenerateTestSuggestionsForCoverage(
                 coverage_gaps.uncovered_analysis),
               CreateTestGenerationPrompt(
                 source_file, test_file, coverage_gaps.uncovered_lines,
                 GenerateTestSuggestionsForCoverage(
                   coverage_gaps.uncovered_analysis))),
             3 + gaps.printed, gaps.failures))

\* auto_generate_tests_for_coverage after its call of get_coverage_gaps
\* returned gaps, which json.loads reads as coverage_gaps.
AutoGenerateWith(source_file, test_file, target_coverage, gaps, coverage_gaps) ==
    IF coverage_gaps.status = "error"
    THEN After(gaps.calls \o <<SubReturned("get_coverage_gaps", gaps)>>,
               Returned(gaps.ret, 1 + gaps.printed, gaps.failures))
    ELSE IF coverage_gaps.coverage_percentage >= target_coverage
    THEN After(
           gaps.calls \o <<SubReturned("get_coverage_gaps", gaps)>>,
           Returned(
             JsonDumps(
               [status |-> "success",
                message |->
                    "Target coverage " \o ToString(target_coverage)
                        \o "% already achieved (current: "
                        \o ToString(coverage_gaps.coverage_percentage)
                        \o "%)",
                current_coverage |-> coverage_gaps.coverage_percentage,
                target_coverage |-> target_coverage,
                improvement |-> 0]),
             2 + gaps.printed, gaps.failures))
    ELSE After(
           gaps.calls
               \o <<SubReturned("get_coverage_gaps", gaps),
                    Called("_generate_test_suggestions_for_coverage",
                           "returned"),
                    Called("_create_test_generation_prompt", "returned")>>,
           Returned(
             GenerationResult(
               coverage_gaps.coverage_percentage, target_coverage,
               coverage_gaps.uncovered_lines,
               GenerateTestSuggestionsForCoverage(
                 coverage_gaps.uncovered_analysis),
               CreateTestGenerationPrompt(
                 source_file, test_file, coverage_gaps.uncovered_lines,
                 GenerateTestSuggestionsForCoverage(
                   coverage_gaps.uncovered_analysis))),
             3 + gaps.printed, gaps.failures))

\* auto_generate_tests_for_coverage(source_file, test_file, project_root,
\* target_coverage)
AutoGenerateTestsForCoverage(source_file, test_file, root, target_coverage, env) ==
    AutoGenerateWith(
        source_file, test_file, target_coverage,
        GetCoverageGaps(source_file, test_file, root, env),
        JsonLoads(GetCoverageGaps(source_file, test_file, root, env).ret))

(***************************************************************************)
(* analyze_code_context and get_test_generation_context.  The first        *)
(* suspends twice, awaiting initialize_language_server and                 *)
(* find_test_file_context; the second awaits the first and then runs to    *)
(* its end.                                                                *)
(***************************************************************************)
\* No handler in flight.  A handler in flight holds its arguments and its
\* locals, the handle it passed to find_test_file_context, the calls it has
\* made and the failures it has met.
Idle ==
    [pc |-> "idle", op |-> "none", source_file |-> <<>>, test_file |-> <<>>,
     project_root |-> <<>>, target_coverage |-> 0,
     detected_language |-> "PYTHON",
     args |-> [project_root |-> <<>>, project_language |-> ""],
     lsp |-> Nothing, calls |-> <<>>, failures |-> {}, ret |-> Nothing]

\* What initialize_language_server(args) and find_test_file_context(args,
\* lsp, source_file) may do: return or raise.
InitOutcomes == {Ok("LanguageServer"), Raise("language server failed to start")}
SearchOutcomes ==
    {Ok(<<>>), Ok(<<"/p/tests/test_foo.py">>), Raise("context search failed")}

\* The handle initialize_language_server returns for args.
Handle(args) ==
    [root |-> args.project_root, language |-> args.project_language]

\* The result of analyze_code_context for a source file read as read and
\* analysed as analysed.  The language reported is the instance field as it
\* is now.
CodeContextResult(t, context_files, failed, read, analysed) ==
    IF ~read.ok
    THEN After(t.calls \o <<Called("open", "raised")>>,
               Returned(JsonDumps(ErrorResult(read.exc)), 1,
                        failed \cup {"source_read"}))
    ELSE IF ~analysed.ok
    THEN After(t.calls
                   \o <<Called("open", "returned"),
                        Called("_analyze_file_structure_multilang",
                               "raised")>>,
               Returned(JsonDumps(ErrorResult(analysed.exc)), 1,
                        failed \cup {"structure_scan"}))
    ELSE After(
           t.calls
               \o <<Called("open", "returned"),
                    Called("_analyze_file_structure_multilang", "returned")>>,
           Returned(
             JsonDumps(
               [source_file |-> Join(t.source_file),
                context_files |-> context_files,
                file_analysis |-> analysed.val,
                project_root |-> Join(t.project_root),
                language |-> project_language,
                status |-> "success",
                suggestions |->
                    GenerateContextSuggestions(analysed.val,
                                               context_files)]),
             0, failed))

\* The rest of analyze_code_context after the context search: read the
\* source file, analyse it, build the result.
FinishCodeContext(t, context_files, failed) ==
    CodeContextResult(
        t, context_files, failed, ReadFile(t.source_file),
        IF FileExists(t.source_file)
        THEN AnalyzeFileStructureMultilang(Files[t.source_file],
                                           t.source_file,
                                           t.detected_language)
        ELSE Raise("unread"))

\* _generate_test_generation_guidance
GenerateTestGenerationGuidance(code_context, coverage_gaps, test_structure) ==
    LET critical ==
            IF coverage_gaps.status = "success"
            THEN CriticalLinesOf(coverage_gaps.uncovered_analysis) ELSE <<>>
        classes ==
            IF code_context.status = "success"
            THEN code_context.file_analysis.classes ELSE <<>>
        functions ==
            IF code_context.status = "success"
            THEN code_context.file_analysis.functions ELSE <<>>
    IN  [focus_areas |->
             [i \in 1..Len(critical) |->
                 "Line " \o ToString(critical[i].line) \o ": "
                     \o critical[i].content],
         test_priorities |->
             [i \in 1..Len(classes) |-> "Test class: " \o classes[i].name]
             \o [i \in 1..Len(functions) |->
                    "Test function: " \o functions[i].name],
         suggested_approaches |-> <<>>]

\* The combined result of get_test_generation_context from what its three
\* sub-operations returned.
GenerationContextResult(code, gaps, structure) ==
    After(
      code.calls \o <<SubReturned("analyze_code_context", code)>>
          \o gaps.calls \o <<SubReturned("get_coverage_gaps", gaps)>>
          \o structure.calls
          \o <<SubReturned("analyze_test_structure", structure)>>,
      Returned(
        JsonDumps(
          [code_context |-> JsonLoads(code.ret),
           coverage_gaps |-> JsonLoads(gaps.ret),
           test_structure |-> JsonLoads(structure.ret),
           generation_guidance |->
               GenerateTestGenerationGuidance(JsonLoads(code.ret),
                                              JsonLoads(gaps.ret),
                                              JsonLoads(structure.ret)),
           status |-> "success"]),
        code.printed + gaps.printed + structure.printed,
        code.failures \cup gaps.failures \cup structure.failures))

\* A get_test_generation_context that returns the error of
\* analyze_code_context without running the other two sub-operations.
FinishGenerationContextSkipping(t, code, env) ==
    IF JsonLoads(code.ret).status = "error"
    THEN After(code.calls \o <<SubReturned("analyze_code_context", code)>>,
               Returned(code.ret, code.printed, code.failures))
    ELSE GenerationContextResult(
             code,
             GetCoverageGaps(t.source_file, t.test_file, t.project_root, env),
             AnalyzeTestStructure(t.test_file, t.project_root))

\* The rest of get_test_generation_context once analyze_code_context has
\* returned code: the other two sub-operations, then the combined result.
FinishGenerationContext(t, code, env) ==
    GenerationContextResult(
        code,
        GetCoverageGaps(t.source_file, t.test_file, t.project_root, env),
        AnalyzeTestStructure(t.test_file, t.project_root))

\* The task once its handler has returned out.
Done(t, out) ==
    [task |-> [t EXCEPT !.pc = "done", !.ret = Some(out.ret),
                        !.calls = out.calls, !.failures = out.failures],
     printed |-> out.printed]

\* The handler in flight returns: what analyze_code_context returns is the
\* result of the call, or the first of the three parts of
\* get_test_generation_context.
Finish(t, context_files, failed, env) ==
    IF t.op = "get_test_generation_context"
    THEN Done(t, FinishGenerationContext(
                     t, FinishCodeContext(t, context_files, failed), env))
    ELSE Done(t, FinishCodeContext(t, context_files, failed))

(***************************************************************************)
(* The state machine.                                                      *)
(***************************************************************************)
\* target_coverage values of the requests; 90 is the default.
TargetCoverages == {40, 90}

\* The server object as __init__ leaves it; _register_tools has printed its
\* two lines.
Init ==
    /\ lsp_server = Nothing
    /\ project_root = Nothing
    /\ project_language = "python"
    /\ language_extensions = LanguageExtensions
    /\ test_frameworks = TestFrameworks
    /\ tools = ToolNames
    /\ running = FALSE
    /\ task = Idle
    /\ parked = Nothing
    /\ stdout = Printed(<<>>, 2)

\* run(): one more line, then the stdio adapter serves requests.
Run ==
    /\ ~running
    /\ running' = TRUE
    /\ stdout' = Printed(stdout, 1)
    /\ UNCHANGED <<lsp_server, project_root, project_language,
                   language_extensions, test_frameworks, tools, task,
                   parked>>

\* The adapter hands a request to its handler when no handler is in flight.
CanDispatch(op) == running /\ task = Idle /\ op \in tools

\* An analyze_code_context that takes any cached handle for a hit, whatever
\* root it was made for.
BeginCodeContextIgnoringRoot(op, source_file, test_file, root, banners) ==
    LET detected_language == DetectLanguage(source_file)
        language == LanguageStr(detected_language)
        miss == lsp_server = Nothing
    IN  /\ project_language' = language
        /\ task' = [Idle EXCEPT
                      !.pc = IF miss THEN "await_init" ELSE "await_search",
                      !.op = op,
                      !.source_file = source_file,
                      !.test_file = test_file,
                      !.project_root = root,
                      !.detected_language = detected_language,
                      !.args = [project_root |-> root,
                                project_language |-> language],
                      !.lsp = IF miss THEN Nothing ELSE lsp_server]
        /\ stdout' = Printed(stdout, banners + 2)
        /\ UNCHANGED <<lsp_server, project_root, language_extensions,
                       test_frameworks, tools, running, parked>>

\* analyze_code_context up to its first await: the language is detected and
\* stored, and on a cache miss the language server is initialized.
BeginCodeContext(op, source_file, test_file, root, banners) ==
    LET detected_language == DetectLanguage(source_file)
        language == LanguageStr(detected_language)
        miss == lsp_server = Nothing \/ project_root # Some(root)
    IN  /\ project_language' = language
        /\ task' = [Idle EXCEPT
                      !.pc = IF miss THEN "await_init" ELSE "await_search",
                      !.op = op,
                      !.source_file = source_file,
                      !.test_file = test_file,
                      !.project_root = root,
                      !.detected_language = detected_language,
                      !.args = [project_root |-> root,
                                project_language |-> language],
                      !.lsp = IF miss THEN Nothing ELSE lsp_server]
        /\ stdout' = Printed(stdout, banners + 2)
        /\ UNCHANGED <<lsp_server, project_root, language_extensions,
                       test_frameworks, tools, running, parked>>

CallAnalyzeCodeContext ==
    \E source_file \in SourceFiles, root \in ProjectRoots :
        /\ CanDispatch("analyze_code_context")
        /\ BeginCodeContext("analyze_code_context", source_file, <<>>, root, 0)

CallGetTestGenerationContext ==
    \E source_file \in SourceFiles, test_file \in TestFiles,
       root \in ProjectRoots :
        /\ CanDispatch("get_test_generation_context")
        /\ BeginCodeContext("get_test_generation_context", source_file,
                            test_file, root, 1)

\* The test runs the rest of the handler in flight may meet: only
\* get_test_generation_context goes on to run the tests.
EnvsOf(t) ==
    IF t.op = "get_test_generation_context" THEN RunEnvs
    ELSE {CHOOSE env \in RunEnvs : TRUE}

\* The handler in flight has returned, with warnings printed on the way.
Land(fin, warnings) ==
    /\ task' = fin.task
    /\ stdout' = Printed(stdout, warnings + fin.printed)

\* An analyze_code_context that caches the new handle and does not store
\* the root it was made for.
InitializeReturnsKeepingRoot ==
    /\ task.pc = "await_init"
    /\ \E outcome \in InitOutcomes, env \in EnvsOf(task) :
        IF outcome.ok
        THEN /\ lsp_server' = Some(Handle(task.args))
             /\ task' = [task EXCEPT
                           !.pc = "await_search",
                           !.lsp = Some(Handle(task.args)),
                           !.calls =
                               Append(@, Called("initialize_language_server",
                                                "returned"))]
             /\ UNCHANGED <<project_root, stdout>>
        ELSE /\ lsp_server' = Nothing
             /\ UNCHANGED project_root
             /\ Land(Finish([task EXCEPT
                               !.calls =
                                   Append(@,
                                          Called("initialize_language_server",
                                                 "raised"))],
                            <<>>, {"lsp_init"}, env), 1)
    /\ UNCHANGED <<project_language, language_extensions, test_frameworks,
                   tools, running, parked>>

\* initialize_language_server returns or raises.  On success the handle and
\* its root are cached and the context search starts; on failure the handle
\* is dropped and the call goes on without context files.
InitializeReturns ==
    /\ task.pc = "await_init"
    /\ \E outcome \in InitOutcomes, env \in EnvsOf(task) :
        IF outcome.ok
        THEN /\ lsp_server' = Some(Handle(task.args))
             /\ project_root' = Some(task.project_root)
             /\ task' = [task EXCEPT
                           !.pc = "await_search",
                           !.lsp = Some(Handle(task.args)),
                           !.calls =
                               Append(@, Called("initialize_language_server",
                                                "returned"))]
             /\ UNCHANGED stdout
        ELSE /\ lsp_server' = Nothing
             /\ UNCHANGED project_root
             /\ Land(Finish([task EXCEPT
                               !.calls =
                                   Append(@,
                                          Called("initialize_language_server",
                                                 "raised"))],
                            <<>>, {"lsp_init"}, env), 1)
    /\ UNCHANGED <<project_language, language_extensions, test_frameworks,
                   tools, running, parked>>

\* An analyze_code_context that lets the exception of the context search
\* reach its catch-all.
SearchReturnsAborting ==
    /\ task.pc = "await_search"
    /\ \E outcome \in SearchOutcomes, env \in EnvsOf(task) :
        IF outcome.ok
        THEN Land(Finish([task EXCEPT
                            !.calls = Append(@, Called("find_test_file_context",
                                                       "returned"))],
                         outcome.val, {}, env), 0)
        ELSE Land(Done([task EXCEPT
                          !.calls = Append(@, Called("find_test_file_context",
                                                     "raised"))],
                       Returned(JsonDumps(ErrorResult(outcome.exc)), 1,
                                {"context_search"})), 0)
    /\ UNCHANGED <<lsp_server, project_root, project_language,
                   language_extensions, test_frameworks, tools, running,
                   parked>>

\* find_test_file_context returns or raises, and the handler runs to its end.
SearchReturns ==
    /\ task.pc = "await_search"
    /\ \E outcome \in SearchOutcomes, env \in EnvsOf(task) :
        IF outcome.ok
        THEN Land(Finish([task EXCEPT
                            !.calls = Append(@, Called("find_test_file_context",
                                                       "returned"))],
                         outcome.val, {}, env), 0)
        ELSE Land(Finish([task EXCEPT
                            !.calls = Append(@, Called("find_test_file_context",
                                                       "raised"))],
                         <<>>, {"context_search"}, env), 1)
    /\ UNCHANGED <<lsp_server, project_root, project_language,
                   language_extensions, test_frameworks, tools, running,
                   parked>>

\* A handler that stores the Python fallback in self.test_frameworks under
\* the detected language instead of only reading the table.
CompleteStoringFallback(op, source_file, test_file, root, target_coverage, out) ==
    /\ task' = [Idle EXCEPT !.pc = "done", !.op = op,
                            !.source_file = source_file,
                            !.test_file = test_file,
                            !.project_root = root,
                            !.target_coverage = target_coverage,
                            !.calls = out.calls,
                            !.failures = out.failures,
                            !.ret = Some(out.ret)]
    /\ stdout' = Printed(stdout, out.printed)
    /\ test_frameworks' =
           [test_frameworks EXCEPT ![DetectLanguage(source_file)] =
                                       test_frameworks["PYTHON"]]
    /\ UNCHANGED <<lsp_server, project_root, project_language,
                   language_extensions, tools, running, parked>>

\* A handler that never suspends runs from the request to its return.
Complete(op, source_file, test_file, root, target_coverage, out) ==
    /\ task' = [Idle EXCEPT !.pc = "done", !.op = op,
                            !.source_file = source_file,
                            !.test_file = test_file,
                            !.project_root = root,
                            !.target_coverage = target_coverage,
                            !.calls = out.calls,
                            !.failures = out.failures,
                            !.ret = Some(out.ret)]
    /\ stdout' = Printed(stdout, out.printed)
    /\ UNCHANGED <<lsp_server, project_root, project_language,
                   language_extensions, test_frameworks, tools, running,
                   parked>>

CallGetCoverageGaps ==
    \E source_file \in SourceFiles, test_file \in TestFiles,
       root \in ProjectRoots, env \in RunEnvs :
        /\ CanDispatch("get_coverage_gaps")
        /\ Complete("get_coverage_gaps", source_file, test_file, root, 0,
                    GetCoverageGaps(source_file, test_file, root, env))

CallAnalyzeTestStructure ==
    \E test_file \in TestFiles, root \in ProjectRoots :
        /\ CanDispatch("analyze_test_structure")
        /\ Complete("analyze_test_structure", <<>>, test_file, root, 0,
                    AnalyzeTestStructure(test_file, root))

CallValidateTestCoverage ==
    \E source_file \in SourceFiles, test_file \in TestFiles,
       root \in ProjectRoots, env \in RunEnvs :
        /\ CanDispatch("validate_test_coverage")
        /\ Complete("validate_test_coverage", source_file, test_file, root, 0,
                    ValidateTestCoverage(source_file, test_file, root, env))

CallAutoGenerateTestsForCoverage ==
    \E source_file \in SourceFiles, test_file \in TestFiles,
       root \in ProjectRoots, target_coverage \in TargetCoverages,
       env \in RunEnvs :
        /\ CanDispatch("auto_generate_tests_for_coverage")
        /\ Complete("auto_generate_tests_for_coverage", source_file,
                    test_file, root, target_coverage,
                    AutoGenerateTestsForCoverage(source_file, test_file, root,
                                                 target_coverage, env))

\* The adapter writes the handler's return value as one protocol message.
Respond ==
    /\ task.pc = "done"
    /\ task' = Idle
    /\ stdout' = IF Len(stdout) < MaxStdout THEN Append(stdout, RpcLine)
                 ELSE stdout
    /\ UNCHANGED <<lsp_server, project_root, project_language,
                   language_extensions, test_frameworks, tools, running,
                   parked>>

Next ==
    \/ Run
    \/ CallAnalyzeCodeContext
    \/ CallGetCoverageGaps
    \/ CallAnalyzeTestStructure
    \/ CallGetTestGenerationContext
    \/ CallValidateTestCoverage
    \/ CallAutoGenerateTestsForCoverage
    \/ InitializeReturns
    \/ SearchReturns
    \/ Respond

Spec == Init /\ [][Next]_vars

(***************************************************************************)
(* An adapter that does not wait for a handler to return before it hands   *)
(* the next request to its handler: while one analyze_code_context call is *)
(* suspended at an await, the event loop runs another.                     *)
(***************************************************************************)
\* The event loop leaves the handler at its await and goes on with the one
\* set aside, or with the next request if none is.
Switch ==
    /\ task.pc \in {"idle", "await_init", "await_search"}
    /\ task.pc = "idle" => parked # Nothing
    /\ task' = IF parked = Nothing THEN Idle ELSE parked[1]
    /\ parked' = IF task.pc = "idle" THEN Nothing ELSE Some(task)
    /\ UNCHANGED <<lsp_server, project_root, project_language,
                   language_extensions, test_frameworks, tools, running,
                   stdout>>

NextOverlap ==
    \/ Run
    \/ CallAnalyzeCodeContext
    \/ InitializeReturns
    \/ SearchReturns
    \/ Respond
    \/ Switch

SpecOverlap == Init /\ [][NextOverlap]_vars

(***************************************************************************)
(* Properties of the handlers' results.  Returns holds in the state a      *)
(* handler has returned in; Payload is then the JSON value it returned.    *)
(***************************************************************************)
Returns == task.pc = "done"
Payload == JsonLoads(task.ret[1])

\* The failures of a call that lie outside the handler: a file that cannot
\* be read, a test run that fails or leaves no report, a collaborator that
\* raises.
ExternalFailures ==
    {"lsp_init", "context_search", "source_read", "runner_exit",
     "report_missing", "parser", "uncovered_read", "test_missing",
     "test_read", "test_quality_read"}

\* The failures a handler answers with an error record: of the file or the
\* step its result is built from.
PrimaryFailures ==
    {"source_read", "test_missing", "test_read", "runner_exit",
     "report_missing", "parser"}

\* C1 as stated: a call whose files are readable and whose collaborators
\* all succeed returns a payload with status "success", also when the
\* source file analyze_code_context reads defines a class or a function.
C1_SuccessWhenAllSucceed ==
    (Returns /\ task.failures \cap ExternalFailures = {})
        => Payload.status = "success"

C3_StatusIsSuccessOrError ==
    Returns =>
        /\ task.ret # Nothing
        /\ "status" \in DOMAIN Payload
        /\ Payload.status \in {"success", "error"}

\* auto_generate_tests_for_coverage has returned the error record of a
\* parser exception, after a call that returned a success.
C3_Witness ==
    /\ Returns
    /\ task.op = "auto_generate_tests_for_coverage"
    /\ "parser" \in task.failures
    /\ Payload.status = "error"
    /\ lsp_server # Nothing

\* C4: a payload with status "error" has the two fields status and error
\* and no other.
C4_ErrorHasTwoFields ==
    (Returns /\ Payload.status = "error")
        => DOMAIN Payload = {"status", "error"}

\* analyze_test_structure has answered a missing test file.
C4_Witness ==
    /\ Returns
    /\ task.op = "analyze_test_structure"
    /\ "test_missing" \in task.failures
    /\ Payload = [status |-> "error",
                  error |-> "Test file /p/tests/test_none.py does not exist"]

\* C5 as stated: analyze_code_context on the file holding "class Foo:" and
\* "    def bar(self): pass" reports the class Foo of line 1 and the
\* function bar of line 2, and nothing else, whatever the cache holds.
C5_FooBarReported ==
    (/\ Returns
     /\ task.op = "analyze_code_context"
     /\ task.source_file = SrcFoo)
        => /\ Payload.status = "success"
           /\ Len(Payload.file_analysis.classes) = 1
           /\ Payload.file_analysis.classes[1].name = "Foo"
           /\ Payload.file_analysis.classes[1].line = 1
           /\ Len(Payload.file_analysis.functions) = 1
           /\ Payload.file_analysis.functions[1].name = "bar"
           /\ Payload.file_analysis.functions[1].line = 2

C9_StdoutIsProtocolOnly ==
    \A i \in 1..Len(stdout) : stdout[i] = RpcLine

(***************************************************************************)
(* Properties of the cached language-server handle.                        *)
(***************************************************************************)
\* C11: whenever a handle is cached, the stored project root is the root
\* that was passed to the initialize_language_server call that returned it.
C11_CacheConsistent ==
    lsp_server # Nothing => project_root = Some(lsp_server[1].root)

\* A handle made for /q is cached after an initialization for /q failed and
\* a later one succeeded.
C11_Witness ==
    /\ lsp_server = Some([root |-> RootQ, language |-> "python"])
    /\ project_root = Some(RootQ)
    /\ task.pc = "await_search"
    /\ stdout = <<PrintLine, PrintLine, PrintLine, PrintLine>>

\* The number of initialize_language_server calls a handler has made.
InitCalls(t) ==
    Len(SelectSeq(t.calls, LAMBDA c : c.call = "initialize_language_server"))

\* C12: analyze_code_context calls initialize_language_server when and only
\* when no handle is cached or the stored root is not the requested one, and
\* then once; an initialization that raises is not tried again in the call,
\* clears the cached handle and leaves the stored root as it was.
C12_InitializeOncePerCall ==
    [][/\ (task.pc = "idle" /\ task'.pc \in {"await_init", "await_search"})
            => /\ task'.pc = "await_init"
                   <=> (lsp_server = Nothing
                            \/ project_root # Some(task'.project_root))
               /\ InitCalls(task') = 0
       /\ task.pc = "await_init"
            => /\ InitCalls(task') = 1
               /\ "lsp_init" \in task'.failures
                      => /\ task'.pc = "done"
                         /\ lsp_server' = Nothing
                         /\ project_root' = project_root
       /\ task.pc = "await_search"
            => InitCalls(task') = InitCalls(task)
       /\ task'.pc = "done" => InitCalls(task') <= 1]_vars

\* An initialization for /q has failed after one for /p succeeded: no
\* handle is cached and the stored root is still /p.
C12_Witness ==
    /\ task.pc = "done"
    /\ task.project_root = RootQ
    /\ "lsp_init" \in task.failures
    /\ InitCalls(task) = 1
    /\ lsp_server = Nothing
    /\ project_root = Some(RootP)

\* C13: when initialize_language_server or find_test_file_context raises,
\* analyze_code_context goes on to read and analyse the source file; a
\* success then lists no context files, and the call ends in an error
\* exactly when the read or the structural analysis failed.
C13_ContinuesWithoutContext ==
    (/\ Returns
     /\ task.op = "analyze_code_context"
     /\ task.failures \cap {"lsp_init", "context_search"} # {})
        => /\ \E i \in 1..Len(task.calls) : task.calls[i].call = "open"
           /\ Payload.status = "success" => Payload.context_files = <<>>
           /\ Payload.status = "error"
                  <=> task.failures \cap {"source_read", "structure_scan"}
                          # {}

\* The context search has raised with a handle cached, and the call has
\* returned the analysis of /p/plain.py without context files.
C13_Witness ==
    /\ Returns
    /\ task.op = "analyze_code_context"
    /\ task.source_file = SrcPlain
    /\ task.failures = {"context_search"}
    /\ Payload.status = "success"
    /\ Payload.context_files = <<>>
    /\ Payload.file_analysis.total_lines > 0

(***************************************************************************)
(* Order and number of the calls a handler makes.                          *)
(***************************************************************************)
\* C14: get_coverage_gaps runs the test command first; it asks whether the
\* report exists only after an exit code of 0 and invokes the parser only
\* after the report was found.  A non-zero exit ends the call with an error
\* made of "Test execution failed: " and the captured stderr; a missing
\* report ends it with the error "Coverage report not generated".
C14_ParserAfterRunAndReport ==
    LET c == task.calls
        At(name) == {i \in 1..Len(c) : c[i].call = name}
    IN  (Returns /\ task.op = "get_coverage_gaps")
            => /\ At("subprocess.run") = {1}
               /\ At("os.path.exists") # {}
                      => /\ c[1].result = "0"
                         /\ At("os.path.exists") = {2}
               /\ At("parse_coverage_report") # {}
                      => /\ c[2] = Called("os.path.exists", "True")
                         /\ At("parse_coverage_report") = {3}
               /\ c[1].result # "0"
                      => /\ Len(c) = 1
                         /\ Payload.status = "error"
                         /\ \E r \in RunOutcomes :
                               /\ ToString(r.returncode) = c[1].result
                               /\ Payload.error
                                      = "Test execution failed: " \o r.stderr
               /\ (Len(c) >= 2 /\ c[2].result = "False")
                      => /\ Len(c) = 2
                         /\ Payload
                                = ErrorResult("Coverage report not generated")

\* The test command has exited with 0 without writing its report, and
\* get_coverage_gaps has returned without invoking the parser.
C14_Witness ==
    /\ Returns
    /\ task.op = "get_coverage_gaps"
    /\ task.calls = <<Called("subprocess.run", "0"),
                      Called("os.path.exists", "False")>>
    /\ Payload.error = "Coverage report not generated"

\* C15: a call runs the test command once when it is get_coverage_gaps,
\* validate_test_coverage, auto_generate_tests_for_coverage or
\* get_test_generation_context and never when it is analyze_code_context or
\* analyze_test_structure, and it calls no collaborator a second time.
C15_SubprocessAtMostOnce ==
    LET c == task.calls
        Count(name) == Cardinality({i \in 1..Len(c) : c[i].call = name})
    IN  Returns
            => /\ Count("subprocess.run")
                      = IF task.op \in {"analyze_code_context",
                                        "analyze_test_structure"}
                        THEN 0 ELSE 1
               /\ \A name \in {"initialize_language_server",
                               "find_test_file_context",
                               "os.path.exists",
                               "parse_coverage_report"} : Count(name) <= 1

\* The test command has exited non-zero inside get_test_generation_context
\* and the call has returned with that one run.
C15_Witness ==
    /\ Returns
    /\ task.op = "get_test_generation_context"
    /\ "runner_exit" \in task.failures
    /\ Cardinality({i \in 1..Len(task.calls) :
                       task.calls[i].call = "subprocess.run"}) = 1

\* C16: get_test_generation_context runs analyze_code_context, then
\* get_coverage_gaps, then analyze_test_structure, each once and whatever the
\* earlier ones returned, and its result holds what each returned under
\* code_context, coverage_gaps and test_structure.
C16_ThreeSubOperationsInOrder ==
    LET c == task.calls
        subs == SelectSeq(c, LAMBDA x : x.value # Nothing)
        At(name) == {i \in 1..Len(c) : c[i].call = name}
    IN  (Returns /\ task.op = "get_test_generation_context")
            => /\ [i \in 1..Len(subs) |-> subs[i].call]
                      = <<"analyze_code_context", "get_coverage_gaps",
                          "analyze_test_structure">>
               /\ \A i \in At("subprocess.run") :
                      /\ At("analyze_code_context") = {i - 1}
                      /\ \A j \in At("get_coverage_gaps") : i < j
               /\ \A i \in At("Path.exists") :
                      At("get_coverage_gaps") = {i - 1}
               /\ At("subprocess.run") # {}
               /\ At("Path.exists") # {}
               /\ c[Len(c)].call = "analyze_test_structure"
               /\ Payload.status = "success"
               /\ Payload.code_context = JsonLoads(subs[1].value[1])
               /\ Payload.coverage_gaps = JsonLoads(subs[2].value[1])
               /\ Payload.test_structure = JsonLoads(subs[3].value[1])

\* analyze_code_context and get_coverage_gaps have both returned errors and
\* analyze_test_structure has still run; the three results are in the
\* combined payload.
C16_Witness ==
    /\ Returns
    /\ task.op = "get_test_generation_context"
    /\ Payload.code_context.status = "error"
    /\ Payload.coverage_gaps.status = "error"
    /\ Payload.test_structure.status = "success"

\* C17: when get_coverage_gaps returns an error, validate_test_coverage and
\* auto_generate_tests_for_coverage return the very string it returned and
\* do nothing after it.
C17_CoverageErrorPassedThrough ==
    LET c == task.calls
        subs == SelectSeq(c, LAMBDA x : x.value # Nothing)
    IN  (/\ Returns
         /\ task.op \in {"validate_test_coverage",
                         "auto_generate_tests_for_coverage"})
            => /\ Len(subs) = 1
               /\ subs[1].call = "get_coverage_gaps"
               /\ subs[1].result = "error"
                      => /\ task.ret = subs[1].value
                         /\ c[Len(c)] = subs[1]

\* The parser has raised inside auto_generate_tests_for_coverage and the
\* call has returned the error payload of get_coverage_gaps.
C17_Witness ==
    /\ Returns
    /\ task.op = "auto_generate_tests_for_coverage"
    /\ task.failures = {"parser"}
    /\ Payload = ErrorResult("malformed coverage report")
    /\ task.calls[Len(task.calls)].call = "get_coverage_gaps"

\* C18: after a successful coverage run auto_generate_tests_for_coverage
\* reports improvement 0 and neither suggestions nor a prompt when the
\* coverage has reached the target; otherwise it reports a prompt, the
\* suggestions (the first five critical lines at most, then the two generic
\* entries), the number of uncovered lines and the positive gap target minus
\* current.
C18_AutoGeneratePayload ==
    LET c == task.calls
        subs == SelectSeq(c, LAMBDA x : x.value # Nothing)
        coverage_gaps == JsonLoads(subs[1].value[1])
        critical == CriticalLinesOf(coverage_gaps.uncovered_analysis)
        generated == Payload.test_suggestions
        n == Len(generated) - 2
    IN  (/\ Returns
         /\ task.op = "auto_generate_tests_for_coverage"
         /\ subs[1].result = "success")
            => /\ Payload.status = "success"
               /\ Payload.current_coverage = coverage_gaps.coverage_percentage
               /\ Payload.target_coverage = task.target_coverage
               /\ IF coverage_gaps.coverage_percentage >= task.target_coverage
                  THEN /\ Payload.improvement = 0
                       /\ "test_suggestions" \notin DOMAIN Payload
                       /\ "test_generation_prompt" \notin DOMAIN Payload
                  ELSE /\ "test_generation_prompt" \in DOMAIN Payload
                       /\ n \in 0..5
                       /\ n = IF Len(critical) > 5 THEN 5 ELSE Len(critical)
                       /\ \A i \in 1..n :
                              generated[i]
                                  = "Test line " \o ToString(critical[i].line)
                                        \o ": " \o critical[i].content
                       /\ generated[n + 1]
                              = "Add tests for edge cases and error conditions"
                       /\ generated[n + 2]
                              = "Add tests for boundary conditions"
                       /\ Payload.uncovered_lines_count
                              = Len(coverage_gaps.uncovered_lines)
                       /\ Payload.coverage_gap
                              = task.target_coverage
                                    - coverage_gaps.coverage_percentage
                       /\ Payload.coverage_gap > 0

\* Six critical lines of /p/plain.py are uncovered and the payload suggests
\* the first five of them and the two generic entries.
C18_Witness ==
    /\ Returns
    /\ task.op = "auto_generate_tests_for_coverage"
    /\ task.source_file = SrcPlain
    /\ Payload.status = "success"
    /\ "test_suggestions" \in DOMAIN Payload
    /\ Len(Payload.test_suggestions) = 7
    /\ Payload.test_suggestions[5] = "Test line 8: assert x"
    /\ Payload.uncovered_lines_count = 9
    /\ Payload.coverage_gap = 90

(***************************************************************************)
(* The language of the request and the language of the handle.             *)
(***************************************************************************)
\* C19: the handle analyze_code_context passes to find_test_file_context
\* was initialized for the language tag of the source file of the request.
C19_HandleForRequestLanguage ==
    task.pc = "await_search"
        => /\ task.lsp # Nothing
           /\ task.lsp[1].language = task.args.project_language

\* C20: when analyze_code_context calls for files of different languages
\* interleave at their awaits, the success payload of each reports the
\* language tag of its own source file.
C20_ReportsOwnLanguage ==
    (/\ Returns
     /\ task.op = "analyze_code_context"
     /\ Payload.status = "success")
        => Payload.language = task.args.project_language

(***************************************************************************)
(* The coverage report of each language.  A call that found no report      *)
(* carries the failure "report_elsewhere" when the test command had        *)
(* written its report, at another path than the one the handler looked at. *)
(***************************************************************************)
\* C21: when the test command of the source file's language exits with 0
\* and has written its coverage report where that command writes it,
\* get_coverage_gaps finds the report at the path it computed and invokes
\* the parser.
C21_ReportFoundWhereWritten ==
    (/\ Returns
     /\ task.op = "get_coverage_gaps"
     /\ task.calls[1] = Called("subprocess.run", "0"))
        => /\ "report_elsewhere" \notin task.failures
           /\ "report_missing" \notin task.failures
                  => \E i \in 1..Len(task.calls) :
                         task.calls[i].call = "parse_coverage_report"

\* C22: in a success payload of analyze_code_context the top-level language
\* and the language of file_analysis are the same tag, whatever the
\* extension of the source file.
C22_LanguageFieldsAgree ==
    (/\ Returns
     /\ task.op = "analyze_code_context"
     /\ Payload.status = "success")
        => Payload.language = Payload.file_analysis.language

====
